---- MODULE Spec2Model ----
(***************************************************************************)
(* Model of src/addr/channel.rs: the multi-producer, single-consumer       *)
(* channel between AddressSender handles and the AddressReceiver.          *)
(*                                                                         *)
(* Every access to shared memory (a queue push or pop, a critical section  *)
(* under one of the two task mutexes, a fetch_sub) is one step, and the    *)
(* local computation that follows it is part of that step.  A              *)
(* compare_exchange loop is one step as well: an iteration whose           *)
(* compare_exchange fails changes nothing but the local `curr`, so the     *)
(* loop acts at the one iteration that returns or whose compare_exchange   *)
(* succeeds, on the word that iteration read.                              *)
(***************************************************************************)
EXTENDS Integers, Sequences, FiniteSets, TLC

\* ---------------------------------------------------------------- bounds
WordBits == 5        \* width of the modelled usize
MaxBuffer == 1       \* channel(buffer) is called with buffer in 0..MaxBuffer
NumHandles == 2      \* producer handles that can ever be created
MaxSends == 2        \* envelopes pushed or about to be pushed in one run

Handles == 1..NumHandles

\* ------------------------------------------------------- the state word
RECURSIVE Pow2(_)
Pow2(n) == IF n = 0 THEN 1 ELSE 2 * Pow2(n - 1)

USIZE_MAX == Pow2(WordBits) - 1
OPEN_MASK == USIZE_MAX - (USIZE_MAX \div 2)
INIT_STATE == OPEN_MASK
MAX_CAPACITY == USIZE_MAX - OPEN_MASK
MAX_BUFFER == MAX_CAPACITY \div 2

\* num & OPEN_MASK == OPEN_MASK, for the one-bit mask
HasOpenBit(num) == (num \div OPEN_MASK) % 2 = 1

decode_state(num) ==
    [is_open |-> HasOpenBit(num), num_messages |-> num % OPEN_MASK]

\* num |= OPEN_MASK sets the bit, it does not add
encode_state(s) ==
    IF s.is_open /\ ~HasOpenBit(s.num_messages)
        THEN s.num_messages + OPEN_MASK
        ELSE s.num_messages

\* usize arithmetic wraps
WrapAdd(a, b) == (a + b) % (USIZE_MAX + 1)
WrapSub(a, b) == (a - b + USIZE_MAX + 1) % (USIZE_MAX + 1)

\* ------------------------------------------------------------ the state
VARIABLES
    buffer,         \* Inner::buffer
    state,          \* Inner::state, the packed word
    message_queue,  \* Inner::message_queue, oldest first
    parked_queue,   \* Inner::parked_queue, oldest first (handle ids)
    num_senders,    \* Inner::num_senders
    recv_task,      \* Inner::recv_task
    sender_task,    \* AddressSender::sender_task, per handle
    maybe_parked,   \* AddressSender::maybe_parked, per handle
    pc,             \* per handle: where its current call stands
    op,             \* per handle: the call in progress
    res,            \* per handle: result of the last send / try_send / do_send
    nsent,          \* per handle: envelopes pushed so far
    waiting,        \* per handle: its task stored a handle in park() and was not notified since
    in_closed,      \* per handle: the call started after close() returned, no sender() since
    cleared,        \* per handle: its last call past poll_unparked was a try_send that found maybe_parked set
    rpc,            \* receiver: where its current call stands
    rmsg,           \* receiver: the message popped by next_message
    rparked,        \* receiver: its last poll returned NotReady (TryPark::Parked)
    nsentinels,     \* sentinels (None) pushed so far
    close_returned, \* close() has returned and sender() was not called since
    ncloses,        \* close() was ever called
    nreopens        \* calls of sender() so far

vars == <<buffer, state, message_queue, parked_queue, num_senders, recv_task,
          sender_task, maybe_parked, pc, op, res, nsent, waiting,
          in_closed, cleared, rpc, rmsg, rparked, close_returned,
          nsentinels, ncloses, nreopens>>

shared == <<state, message_queue, parked_queue, num_senders, recv_task>>
producer == <<maybe_parked, pc, op, res, nsent, in_closed>>
receiver == <<rpc, rmsg, close_returned>>
counts == <<nsentinels, ncloses, nreopens>>

\* envelopes pushed so far plus the calls that may still push one
RECURSIVE SumTo(_, _)
SumTo(f, n) == IF n = 0 THEN 0 ELSE f[n] + SumTo(f, n - 1)
Sending == {p \in Handles : op[p] \in {"send", "try_send", "do_send"}}
SendsLeft == SumTo(nsent, NumHandles) + Cardinality(Sending) < MaxSends

\* Option<Envelope>: an envelope names its handle, its number on that handle
\* and whether do_send pushed it; None is the terminating sentinel.
NoneMsg == [from |-> 0, seq |-> 0, forced |-> FALSE]
Envelope(p, n, call) == [from |-> p, seq |-> n, forced |-> (call = "do_send")]
\* the receiver holds no popped message
NoMsg == [from |-> 0, seq |-> -1, forced |-> FALSE]

SenderTask_new == [task |-> FALSE, is_parked |-> FALSE]

\* SenderTask::notify on the SenderTask of handle q: clears is_parked and
\* notifies the stored task, if any
notify(q) ==
    /\ sender_task' = [sender_task EXCEPT ![q] = [task |-> FALSE, is_parked |-> FALSE]]
    /\ waiting' = [waiting EXCEPT ![q] = IF sender_task[q].task THEN FALSE ELSE @]

max_senders == MAX_CAPACITY - buffer

\* channel(buffer): the receiver's task slot and the first handle; the other
\* handles are not created yet
InitHandles ==
    /\ recv_task = [unparked |-> FALSE, task |-> FALSE]
    /\ sender_task = [p \in Handles |-> SenderTask_new]
    /\ maybe_parked = [p \in Handles |-> FALSE]
    /\ pc = [p \in Handles |-> IF p = 1 THEN "idle" ELSE "unborn"]
    /\ op = [p \in Handles |-> "none"]
    /\ res = [p \in Handles |-> "none"]
    /\ nsent = [p \in Handles |-> 0]
    /\ waiting = [p \in Handles |-> FALSE]
    /\ in_closed = [p \in Handles |-> FALSE]
    /\ cleared = [p \in Handles |-> FALSE]
    /\ rpc = "idle"
    /\ rmsg = NoMsg
    /\ rparked = FALSE
    /\ nsentinels = 0
    /\ close_returned = FALSE
    /\ ncloses = FALSE
    /\ nreopens = 0

\* channel(buffer) asserts that the requested buffer is small enough
channel_accepts(b) == b < MAX_BUFFER

\* channel(buffer): one sender, open, no messages
Init ==
    /\ buffer \in 0..MaxBuffer
    /\ channel_accepts(buffer)
    /\ state = INIT_STATE
    /\ message_queue = << >>
    /\ parked_queue = << >>
    /\ num_senders = 1
    /\ InitHandles

\* a channel on which clone() has been called until max_senders() - 2 or
\* max_senders() - 1 further handles exist; those handles stay idle
InitCeiling ==
    /\ buffer \in 0..MaxBuffer
    /\ channel_accepts(buffer)
    /\ state = INIT_STATE
    /\ message_queue = << >>
    /\ parked_queue = << >>
    /\ num_senders \in {max_senders - 1, max_senders}
    /\ InitHandles

\* a channel on which do_send has been called MAX_CAPACITY - 1 times and
\* poll never; nsent numbers the envelopes from here on, those of the
\* backlog have the numbers up to 0
InitBacklog ==
    /\ buffer \in 0..MaxBuffer
    /\ channel_accepts(buffer)
    /\ state = encode_state([is_open |-> TRUE, num_messages |-> MAX_CAPACITY - 1])
    /\ message_queue = [i \in 1..(MAX_CAPACITY - 1) |->
                            Envelope(1, i - (MAX_CAPACITY - 1), "do_send")]
    /\ parked_queue = << >>
    /\ num_senders = 1
    /\ InitHandles

\* a send / try_send / do_send on handle p returns r
Return(p, r) ==
    /\ pc' = [pc EXCEPT ![p] = "idle"]
    /\ op' = [op EXCEPT ![p] = "none"]
    /\ res' = [res EXCEPT ![p] = r]
    /\ in_closed' = [in_closed EXCEPT ![p] = FALSE]

\* the drop of handle p is over
Dropped(p) ==
    /\ pc' = [pc EXCEPT ![p] = "dropped"]
    /\ op' = [op EXCEPT ![p] = "none"]
    /\ UNCHANGED <<res, in_closed>>

Goto(p, l) == pc' = [pc EXCEPT ![p] = l] /\ UNCHANGED <<op, res, in_closed>>

\* ------------------------------------------------------- AddressSender
\* send / try_send, first step: poll_unparked(false)
poll_unparked(p, call) ==
    /\ pc[p] = "idle"
    /\ SendsLeft
    /\ IF maybe_parked[p] /\ sender_task[p].is_parked
         THEN \* still parked: the stored task becomes None (do_park = false)
              /\ sender_task' = [sender_task EXCEPT ![p].task = FALSE]
              /\ res' = [res EXCEPT ![p] = "NotReady"]
              /\ UNCHANGED <<maybe_parked, pc, op, in_closed, cleared>>
         ELSE /\ maybe_parked' = [maybe_parked EXCEPT ![p] = FALSE]
              /\ cleared' = [cleared EXCEPT ![p] = (call = "try_send" /\ maybe_parked[p])]
              /\ in_closed' = [in_closed EXCEPT ![p] = close_returned]
              /\ pc' = [pc EXCEPT ![p] = "inc_num_messages"]
              /\ op' = [op EXCEPT ![p] = call]
              /\ res' = [res EXCEPT ![p] = "none"]
              /\ UNCHANGED sender_task
    /\ UNCHANGED <<buffer, rparked, shared, nsent, waiting, receiver, counts>>

send(p) == poll_unparked(p, "send")

try_send(p) == poll_unparked(p, "try_send")

\* receiver_full as it is not: full one message late; never full
receiver_full_gt(s) == buffer # 0 /\ s.num_messages > buffer

receiver_full_never(s) == FALSE

\* `park_self` as inc_num_messages computes it from the decoded word
receiver_full(s) == buffer # 0 /\ s.num_messages >= buffer

\* inc_num_messages as it is not: a try_send that finds the buffer full
\* reserves a slot all the same before it returns NotReady
inc_num_messages_leaky(p) ==
    /\ pc[p] = "inc_num_messages"
    /\ LET s == decode_state(state) IN
       IF ~s.is_open THEN
           /\ Return(p, "Closed")
           /\ UNCHANGED state
       ELSE IF receiver_full(s) THEN
           /\ IF op[p] = "send" THEN Goto(p, "park") /\ UNCHANGED state
              ELSE /\ Return(p, "NotReady")
                   /\ state' = encode_state([s EXCEPT !.num_messages = WrapAdd(@, 1)])
       ELSE
           /\ state' = encode_state([s EXCEPT !.num_messages = WrapAdd(@, 1)])
           /\ Goto(p, "push")
    /\ UNCHANGED <<buffer, cleared, rparked, message_queue, parked_queue, num_senders, recv_task,
                   sender_task, maybe_parked, nsent, waiting, receiver, counts>>

\* inc_num_messages: None makes the call return Closed; Some(true) makes
\* send park and try_send return NotReady; otherwise the count is
\* incremented and the call goes on to push
inc_num_messages(p) ==
    /\ pc[p] = "inc_num_messages"
    /\ LET s == decode_state(state) IN
       IF ~s.is_open THEN
           /\ Return(p, "Closed")
           /\ UNCHANGED state
       ELSE IF receiver_full(s) THEN
           /\ IF op[p] = "send" THEN Goto(p, "park") ELSE Return(p, "NotReady")
           /\ UNCHANGED state
       ELSE
           /\ state' = encode_state([s EXCEPT !.num_messages = WrapAdd(@, 1)])
           /\ Goto(p, "push")
    /\ UNCHANGED <<buffer, cleared, rparked, message_queue, parked_queue, num_senders, recv_task,
                   sender_task, maybe_parked, nsent, waiting, receiver, counts>>

\* park as it is not: a send that parks takes a slot all the same
park_reserving(p) ==
    /\ pc[p] = "park"
    /\ sender_task' = [sender_task EXCEPT
                         ![p] = [task |-> (op[p] = "send"), is_parked |-> TRUE]]
    /\ waiting' = [waiting EXCEPT ![p] = (op[p] = "send")]
    /\ state' = IF op[p] = "send"
                  THEN encode_state([decode_state(state) EXCEPT
                                        !.num_messages = WrapAdd(@, 1)])
                  ELSE state
    /\ Goto(p, "park_push")
    /\ UNCHANGED <<buffer, cleared, rparked, message_queue, parked_queue, num_senders,
                   recv_task, maybe_parked, nsent, receiver, counts>>

\* park, first step: store the task (Some for send, None for do_close) and
\* set is_parked under the SenderTask mutex
park(p) ==
    /\ pc[p] = "park"
    /\ sender_task' = [sender_task EXCEPT
                         ![p] = [task |-> (op[p] = "send"), is_parked |-> TRUE]]
    /\ waiting' = [waiting EXCEPT ![p] = (op[p] = "send")]
    /\ Goto(p, "park_push")
    /\ UNCHANGED <<buffer, cleared, rparked, shared, maybe_parked, nsent, receiver, counts>>

\* park, second step: parked_queue.push(sender_task)
park_push(p) ==
    /\ pc[p] = "park_push"
    /\ parked_queue' = Append(parked_queue, p)
    /\ Goto(p, "park_load")
    /\ UNCHANGED <<buffer, cleared, rparked, state, message_queue, num_senders, recv_task,
                   sender_task, maybe_parked, nsent, waiting, receiver, counts>>

\* park_load as it is not: maybe_parked.set(true), whatever the state word says
park_load_true(p) ==
    /\ pc[p] = "park_load"
    /\ maybe_parked' = [maybe_parked EXCEPT ![p] = TRUE]
    /\ IF op[p] = "send" THEN Return(p, "NotReady") ELSE Goto(p, "push")
    /\ UNCHANGED <<buffer, cleared, rparked, shared, sender_task, nsent, waiting, receiver, counts>>

\* park_load as it is not: maybe_parked.set(false), whatever the state word says
park_load_false(p) ==
    /\ pc[p] = "park_load"
    /\ maybe_parked' = [maybe_parked EXCEPT ![p] = FALSE]
    /\ IF op[p] = "send" THEN Return(p, "NotReady") ELSE Goto(p, "push")
    /\ UNCHANGED <<buffer, cleared, rparked, shared, sender_task, nsent, waiting, receiver, counts>>

\* park, last step: maybe_parked.set(state.is_open); send then returns
\* NotReady, do_close goes on to push the sentinel
park_load(p) ==
    /\ pc[p] = "park_load"
    /\ maybe_parked' = [maybe_parked EXCEPT ![p] = decode_state(state).is_open]
    /\ IF op[p] = "send" THEN Return(p, "NotReady") ELSE Goto(p, "push")
    /\ UNCHANGED <<buffer, cleared, rparked, shared, sender_task, nsent, waiting, receiver, counts>>

\* queue_push as it is not: the message is put at the head of the queue
queue_push_front(p) ==
    /\ pc[p] = "push"
    /\ IF op[p] = "drop"
         THEN /\ message_queue' = <<NoneMsg>> \o message_queue
              /\ nsentinels' = nsentinels + 1
              /\ UNCHANGED nsent
         ELSE /\ message_queue' = <<Envelope(p, nsent[p] + 1, op[p])>> \o message_queue
              /\ nsent' = [nsent EXCEPT ![p] = @ + 1]
              /\ UNCHANGED nsentinels
    /\ Goto(p, "signal")
    /\ UNCHANGED <<buffer, cleared, rparked, state, parked_queue, num_senders, recv_task,
                   sender_task, maybe_parked, waiting, receiver, ncloses, nreopens>>

\* queue_push_and_signal, first step: message_queue.push(msg)
queue_push(p) ==
    /\ pc[p] = "push"
    /\ IF op[p] = "drop"
         THEN /\ message_queue' = Append(message_queue, NoneMsg)
              /\ nsentinels' = nsentinels + 1
              /\ UNCHANGED nsent
         ELSE /\ message_queue' = Append(message_queue, Envelope(p, nsent[p] + 1, op[p]))
              /\ nsent' = [nsent EXCEPT ![p] = @ + 1]
              /\ UNCHANGED nsentinels
    /\ Goto(p, "signal")
    /\ UNCHANGED <<buffer, cleared, rparked, state, parked_queue, num_senders, recv_task,
                   sender_task, maybe_parked, waiting, receiver, ncloses, nreopens>>

\* signal as it is not: the receiver's task is neither flagged nor notified
signal_lost(p) ==
    /\ pc[p] = "signal"
    /\ recv_task' = recv_task
    /\ IF op[p] = "drop" THEN Dropped(p) ELSE Return(p, "Ok")
    /\ UNCHANGED <<buffer, cleared, rparked, state, message_queue, parked_queue, num_senders,
                   sender_task, maybe_parked, nsent, waiting, receiver, counts>>

\* queue_push_and_signal, second step: signal(); the call then returns
signal(p) ==
    /\ pc[p] = "signal"
    /\ recv_task' = [unparked |-> TRUE,
                     task |-> IF recv_task.unparked THEN recv_task.task ELSE FALSE]
    /\ IF op[p] = "drop" THEN Dropped(p) ELSE Return(p, "Ok")
    /\ UNCHANGED <<buffer, cleared, rparked, state, message_queue, parked_queue, num_senders,
                   sender_task, maybe_parked, nsent, waiting, receiver, counts>>

\* inc_num_messages_force(close) on the decoded word s: the word it stores
\* and the park_self it returns
\* force_next as it is not: the message is not counted
force_next_uncounted(s, close) ==
    encode_state([is_open |-> IF close THEN FALSE ELSE s.is_open,
                  num_messages |-> s.num_messages])

force_next(s, close) ==
    encode_state([is_open |-> IF close THEN FALSE ELSE s.is_open,
                  num_messages |-> WrapAdd(s.num_messages, 1)])

\* force_park_self as it is not: only a count above the buffer parks
force_park_self_gt(s) == buffer # 0 /\ WrapAdd(s.num_messages, 1) > buffer

force_park_self(s) == buffer # 0 /\ WrapAdd(s.num_messages, 1) >= buffer

\* do_send as it is not: it obeys the buffer like try_send
do_send_checked(p) ==
    /\ pc[p] = "idle"
    /\ SendsLeft
    /\ LET s == decode_state(state) IN
       IF ~s.is_open
         THEN /\ res' = [res EXCEPT ![p] = "Closed"]
              /\ UNCHANGED <<state, pc, op, in_closed>>
         ELSE IF receiver_full(s)
         THEN /\ res' = [res EXCEPT ![p] = "NotReady"]
              /\ UNCHANGED <<state, pc, op, in_closed>>
         ELSE /\ state' = force_next(s, FALSE)
              /\ pc' = [pc EXCEPT ![p] = "push"]
              /\ op' = [op EXCEPT ![p] = "do_send"]
              /\ res' = [res EXCEPT ![p] = "none"]
              /\ in_closed' = [in_closed EXCEPT ![p] = close_returned]
    /\ UNCHANGED <<buffer, cleared, rparked, message_queue, parked_queue, num_senders, recv_task,
                   sender_task, maybe_parked, nsent, waiting, receiver, counts>>

\* do_send: inc_num_messages_force(false); the returned park_self is ignored
do_send(p) ==
    /\ pc[p] = "idle"
    /\ SendsLeft
    /\ LET s == decode_state(state) IN
       IF ~s.is_open
         THEN /\ res' = [res EXCEPT ![p] = "Closed"]
              /\ UNCHANGED <<state, pc, op, in_closed>>
         ELSE /\ state' = force_next(s, FALSE)
              /\ pc' = [pc EXCEPT ![p] = "push"]
              /\ op' = [op EXCEPT ![p] = "do_send"]
              /\ res' = [res EXCEPT ![p] = "none"]
              /\ in_closed' = [in_closed EXCEPT ![p] = close_returned]
    /\ UNCHANGED <<buffer, cleared, rparked, message_queue, parked_queue, num_senders, recv_task,
                   sender_task, maybe_parked, nsent, waiting, receiver, counts>>

\* drop as it is not: do_close when fetch_sub read 2; do_close on every drop
drop_off_by_one(p) ==
    /\ pc[p] = "idle"
    /\ num_senders' = WrapSub(num_senders, 1)
    /\ IF num_senders = 2
         THEN /\ pc' = [pc EXCEPT ![p] = "do_close"]
              /\ op' = [op EXCEPT ![p] = "drop"]
              /\ UNCHANGED <<res, in_closed>>
         ELSE Dropped(p)
    /\ UNCHANGED <<buffer, cleared, rparked, state, message_queue, parked_queue, recv_task,
                   sender_task, maybe_parked, nsent, waiting, receiver, counts>>

drop_always(p) ==
    /\ pc[p] = "idle"
    /\ num_senders' = WrapSub(num_senders, 1)
    /\ pc' = [pc EXCEPT ![p] = "do_close"]
    /\ op' = [op EXCEPT ![p] = "drop"]
    /\ UNCHANGED <<buffer, cleared, rparked, state, message_queue, parked_queue, recv_task,
                   sender_task, maybe_parked, res, in_closed, nsent, waiting,
                   receiver, counts>>

\* Drop for AddressSender: num_senders.fetch_sub(1); the handle that read 1
\* goes on to do_close
drop(p) ==
    /\ pc[p] = "idle"
    /\ num_senders' = WrapSub(num_senders, 1)
    /\ IF num_senders = 1
         THEN /\ pc' = [pc EXCEPT ![p] = "do_close"]
              /\ op' = [op EXCEPT ![p] = "drop"]
              /\ UNCHANGED <<res, in_closed>>
         ELSE Dropped(p)
    /\ UNCHANGED <<buffer, cleared, rparked, state, message_queue, parked_queue, recv_task,
                   sender_task, maybe_parked, nsent, waiting, receiver, counts>>

\* do_close: inc_num_messages_force(true); None ends the drop, park_self
\* parks the handle without a task before the sentinel is pushed
do_close(p) ==
    /\ pc[p] = "do_close"
    /\ LET s == decode_state(state) IN
       IF ~s.is_open
         THEN /\ Dropped(p)
              /\ UNCHANGED state
         ELSE /\ state' = force_next(s, TRUE)
              /\ Goto(p, IF force_park_self(s) THEN "park" ELSE "push")
    /\ UNCHANGED <<buffer, cleared, rparked, message_queue, parked_queue, num_senders, recv_task,
                   sender_task, maybe_parked, nsent, waiting, receiver, counts>>

\* handle slots of the model not yet taken
FreeSlots == {q \in Handles : pc[q] = "unborn"}

NewHandle == CHOOSE q \in FreeSlots : \A r \in FreeSlots : q <= r

\* clone as it is not: no look at max_senders
clone_unchecked(p) ==
    /\ pc[p] = "idle"
    /\ Cardinality(FreeSlots) > (IF rpc = "sender_clone" THEN 1 ELSE 0)
    /\ num_senders' = WrapAdd(num_senders, 1)
    /\ pc' = [pc EXCEPT ![NewHandle] = "idle"]
    /\ UNCHANGED <<buffer, cleared, rparked, state, message_queue, parked_queue, recv_task,
                   sender_task, maybe_parked, op, res, nsent, waiting,
                   in_closed, receiver, counts>>

\* Clone for AddressSender: panic at max_senders, else num_senders + 1 and
\* a new handle with a fresh SenderTask
clone(p) ==
    /\ pc[p] = "idle"
    /\ \/ num_senders = max_senders
       \/ Cardinality(FreeSlots) > (IF rpc = "sender_clone" THEN 1 ELSE 0)
    /\ IF num_senders = max_senders
         THEN /\ pc' = [pc EXCEPT ![p] = "panicked"]
              /\ UNCHANGED num_senders
         ELSE /\ num_senders' = WrapAdd(num_senders, 1)
              /\ pc' = [pc EXCEPT ![NewHandle] = "idle"]
    /\ UNCHANGED <<buffer, cleared, rparked, state, message_queue, parked_queue, recv_task,
                   sender_task, maybe_parked, op, res, nsent, waiting,
                   in_closed, receiver, counts>>

\* ----------------------------------------------------- AddressReceiver
\* next_message: message_queue.pop(); Data goes on to unpark_one, Empty to
\* try_park (Inconsistent only repeats the pop)
pop_message ==
    IF message_queue # << >>
      THEN /\ rmsg' = Head(message_queue)
           /\ message_queue' = Tail(message_queue)
           /\ rpc' = "unpark_one"
      ELSE /\ rpc' = "try_park"
           /\ UNCHANGED <<rmsg, message_queue>>

\* Stream::poll is called: the first next_message
poll ==
    /\ rpc = "idle"
    /\ pop_message
    /\ rparked' = FALSE
    /\ UNCHANGED <<buffer, cleared, state, parked_queue, num_senders, recv_task,
                   sender_task, waiting, producer,
                   close_returned, counts>>

\* poll's loop continues after TryPark::NotEmpty
next_message ==
    /\ rpc = "next_message"
    /\ pop_message
    /\ UNCHANGED <<buffer, cleared, rparked, state, parked_queue, num_senders, recv_task,
                   sender_task, waiting, producer,
                   close_returned, counts>>

\* try_park as it is not: Closed as soon as is_open is false
try_park_closed_only ==
    /\ rpc = "try_park"
    /\ IF ~decode_state(state).is_open
         THEN rpc' = "idle"
         ELSE rpc' = "try_park_lock"
    /\ UNCHANGED <<buffer, cleared, rparked, shared, sender_task, waiting, producer, rmsg,
                   close_returned, counts>>

\* try_park: the state load; TryPark::Closed makes poll return Ready(None)
try_park ==
    /\ rpc = "try_park"
    /\ LET s == decode_state(state) IN
       IF ~s.is_open /\ s.num_messages = 0
         THEN rpc' = "idle"
         ELSE rpc' = "try_park_lock"
    /\ UNCHANGED <<buffer, cleared, rparked, shared, sender_task, waiting, producer, rmsg,
                   close_returned, counts>>

\* try_park under the recv_task mutex: NotEmpty consumes the signal, Parked
\* stores the task and makes poll return NotReady
try_park_lock ==
    /\ rpc = "try_park_lock"
    /\ IF recv_task.unparked
         THEN /\ recv_task' = [recv_task EXCEPT !.unparked = FALSE]
              /\ rpc' = "next_message"
              /\ UNCHANGED rparked
         ELSE /\ recv_task' = [recv_task EXCEPT !.task = TRUE]
              /\ rpc' = "idle"
              /\ rparked' = TRUE
    /\ UNCHANGED <<buffer, cleared, state, message_queue, parked_queue, num_senders,
                   sender_task, waiting, producer, rmsg,
                   close_returned, counts>>

\* unpark_one as it is not: nothing is popped or notified
unpark_one_skip ==
    /\ rpc = "unpark_one"
    /\ rpc' = "dec_num_messages"
    /\ UNCHANGED <<buffer, cleared, rparked, shared, sender_task, waiting, producer, rmsg,
                   close_returned, counts>>

\* unpark_one as it is not: not called for a popped sentinel
unpark_one_envelopes ==
    /\ rpc = "unpark_one"
    /\ IF parked_queue # << >> /\ rmsg # NoneMsg
         THEN /\ parked_queue' = Tail(parked_queue)
              /\ notify(Head(parked_queue))
         ELSE UNCHANGED <<parked_queue, sender_task, waiting>>
    /\ rpc' = "dec_num_messages"
    /\ UNCHANGED <<buffer, cleared, rparked, state, message_queue, num_senders, recv_task,
                   producer, rmsg, close_returned, counts>>

\* unpark_one: pop one SenderTask off the parked queue, if there is one, and
\* notify it
unpark_one ==
    /\ rpc = "unpark_one"
    /\ IF parked_queue # << >>
         THEN /\ parked_queue' = Tail(parked_queue)
              /\ notify(Head(parked_queue))
         ELSE UNCHANGED <<parked_queue, sender_task, waiting>>
    /\ rpc' = "dec_num_messages"
    /\ UNCHANGED <<buffer, cleared, rparked, state, message_queue, num_senders, recv_task,
                   producer, rmsg, close_returned, counts>>

\* dec_num_messages as it is not: no decrement for a popped sentinel
dec_num_messages_envelopes ==
    /\ rpc = "dec_num_messages"
    /\ LET s == decode_state(state) IN
       \/ /\ s.num_messages = 0
          /\ rpc' = "panicked"
          /\ UNCHANGED <<state, rmsg>>
       \/ /\ state' = IF rmsg = NoneMsg THEN state
                       ELSE encode_state([s EXCEPT !.num_messages = WrapSub(@, 1)])
          /\ rmsg' = NoMsg
          /\ rpc' = "idle"
    /\ UNCHANGED <<buffer, cleared, rparked, message_queue, parked_queue, num_senders, recv_task,
                   sender_task, waiting, producer, close_returned, counts>>

\* dec_num_messages; poll then returns Ready(msg).  `num_messages -= 1` at 0
\* panics in a build with overflow checks and wraps in one without.
dec_num_messages ==
    /\ rpc = "dec_num_messages"
    /\ LET s == decode_state(state) IN
       \/ /\ s.num_messages = 0
          /\ rpc' = "panicked"
          /\ UNCHANGED <<state, rmsg>>
       \/ /\ state' = encode_state([s EXCEPT !.num_messages = WrapSub(@, 1)])
          /\ rmsg' = NoMsg
          /\ rpc' = "idle"
    /\ UNCHANGED <<buffer, cleared, rparked, message_queue, parked_queue, num_senders, recv_task,
                   sender_task, waiting, producer, close_returned, counts>>

\* close is called: the loop that clears is_open
close ==
    /\ rpc = "idle"
    /\ ncloses' = TRUE
    /\ state' = encode_state([decode_state(state) EXCEPT !.is_open = FALSE])
    /\ rpc' = "close_drain"
    /\ UNCHANGED <<buffer, cleared, rparked, message_queue, parked_queue, num_senders, recv_task,
                   sender_task, waiting, producer, rmsg,
                   close_returned, nsentinels, nreopens>>

\* close: the loop that pops and notifies every parked SenderTask; on Empty
\* close returns
close_drain ==
    /\ rpc = "close_drain"
    /\ IF parked_queue # << >>
         THEN /\ parked_queue' = Tail(parked_queue)
              /\ notify(Head(parked_queue))
              /\ UNCHANGED <<rpc, close_returned>>
         ELSE /\ rpc' = "idle"
              /\ close_returned' = TRUE
              /\ UNCHANGED <<parked_queue, sender_task, waiting>>
    /\ UNCHANGED <<buffer, cleared, rparked, state, message_queue, num_senders, recv_task,
                   producer, rmsg, counts>>

\* sender is called: the loop that sets is_open
sender ==
    /\ rpc = "idle"
    /\ FreeSlots # {}
    /\ nreopens' = nreopens + 1
    /\ close_returned' = FALSE
    /\ in_closed' = [p \in Handles |-> FALSE]
    /\ state' = encode_state([decode_state(state) EXCEPT !.is_open = TRUE])
    /\ rpc' = "sender_clone"
    /\ UNCHANGED <<buffer, cleared, rparked, message_queue, parked_queue, num_senders, recv_task,
                   sender_task, waiting, maybe_parked, pc, op, res, nsent,
                   rmsg, nsentinels, ncloses>>

\* sender: "this code same as Sender::clone"
sender_clone ==
    /\ rpc = "sender_clone"
    /\ IF num_senders = max_senders
         THEN /\ rpc' = "panicked"
              /\ UNCHANGED <<num_senders, pc>>
         ELSE /\ num_senders' = WrapAdd(num_senders, 1)
              /\ pc' = [pc EXCEPT ![NewHandle] = "idle"]
              /\ rpc' = "idle"
    /\ UNCHANGED <<buffer, cleared, rparked, state, message_queue, parked_queue, recv_task,
                   sender_task, waiting, maybe_parked, op, res, nsent,
                   in_closed, rmsg, close_returned, counts>>

\* Drop for AddressReceiver, first step: close(), the loop that clears is_open
receiver_drop ==
    /\ rpc = "idle"
    /\ ncloses' = TRUE
    /\ state' = encode_state([decode_state(state) EXCEPT !.is_open = FALSE])
    /\ rpc' = "drop_close"
    /\ UNCHANGED <<buffer, cleared, rparked, message_queue, parked_queue, num_senders, recv_task,
                   sender_task, waiting, producer, rmsg,
                   close_returned, nsentinels, nreopens>>

\* Drop for AddressReceiver: close(), the loop that pops and notifies every
\* parked SenderTask; on Empty the drain of the message queue starts
drop_close ==
    /\ rpc = "drop_close"
    /\ IF parked_queue # << >>
         THEN /\ parked_queue' = Tail(parked_queue)
              /\ notify(Head(parked_queue))
              /\ UNCHANGED rpc
         ELSE /\ rpc' = "drop_drain"
              /\ UNCHANGED <<parked_queue, sender_task, waiting>>
    /\ UNCHANGED <<buffer, cleared, rparked, state, message_queue, num_senders, recv_task,
                   producer, rmsg, close_returned, counts>>

\* Drop for AddressReceiver: `while self.next_message().is_ready() {}`; each
\* popped message is released, Empty ends the drop
drop_drain ==
    /\ rpc = "drop_drain"
    /\ IF message_queue # << >>
         THEN /\ message_queue' = Tail(message_queue)
              /\ UNCHANGED rpc
         ELSE /\ rpc' = "dropped"
              /\ UNCHANGED message_queue
    /\ UNCHANGED <<buffer, cleared, rparked, state, parked_queue, num_senders, recv_task,
                   sender_task, waiting, producer, rmsg, close_returned, counts>>

\* --------------------------------------------------------- the program
Next ==
    \/ \E p \in Handles : send(p)
    \/ \E p \in Handles : try_send(p)
    \/ \E p \in Handles : inc_num_messages(p)
    \/ \E p \in Handles : park(p)
    \/ \E p \in Handles : park_push(p)
    \/ \E p \in Handles : park_load(p)
    \/ \E p \in Handles : queue_push(p)
    \/ \E p \in Handles : signal(p)
    \/ \E p \in Handles : do_send(p)
    \/ \E p \in Handles : drop(p)
    \/ \E p \in Handles : do_close(p)
    \/ \E p \in Handles : clone(p)
    \/ poll
    \/ next_message
    \/ try_park
    \/ try_park_lock
    \/ unpark_one
    \/ dec_num_messages
    \/ close
    \/ close_drain
    \/ sender
    \/ sender_clone
    \/ receiver_drop
    \/ drop_close
    \/ drop_drain

Spec == Init /\ [][Next]_vars

\* the operations that create and release handles, close and re-open, on a
\* channel that is one or no handle away from max_senders(); do_send stands
\* for the sends
NextCeiling ==
    \/ \E p \in Handles : clone(p)
    \/ \E p \in Handles : drop(p)
    \/ \E p \in Handles : do_send(p)
    \/ \E p \in Handles : queue_push(p)
    \/ \E p \in Handles : signal(p)
    \/ close
    \/ close_drain
    \/ sender
    \/ sender_clone

SpecCeiling == InitCeiling /\ [][NextCeiling]_vars

\* do_send and poll on a channel with a backlog of MAX_CAPACITY - 1 messages
NextBacklog ==
    \/ \E p \in Handles : do_send(p)
    \/ \E p \in Handles : queue_push(p)
    \/ \E p \in Handles : signal(p)
    \/ poll
    \/ next_message
    \/ try_park
    \/ try_park_lock
    \/ unpark_one
    \/ dec_num_messages

SpecBacklog == InitBacklog /\ [][NextBacklog]_vars

\* the channel used with send and try_send only: every operation but do_send
NextBackPressured ==
    \/ \E p \in Handles : send(p)
    \/ \E p \in Handles : try_send(p)
    \/ \E p \in Handles : inc_num_messages(p)
    \/ \E p \in Handles : park(p)
    \/ \E p \in Handles : park_push(p)
    \/ \E p \in Handles : park_load(p)
    \/ \E p \in Handles : queue_push(p)
    \/ \E p \in Handles : signal(p)
    \/ \E p \in Handles : drop(p)
    \/ \E p \in Handles : do_close(p)
    \/ \E p \in Handles : clone(p)
    \/ poll
    \/ next_message
    \/ try_park
    \/ try_park_lock
    \/ unpark_one
    \/ dec_num_messages
    \/ close
    \/ close_drain
    \/ sender
    \/ sender_clone
    \/ receiver_drop
    \/ drop_close
    \/ drop_drain

SpecBackPressured == Init /\ [][NextBackPressured]_vars

TypeOK ==
    /\ buffer \in 0..MaxBuffer
    /\ state \in 0..USIZE_MAX
    /\ num_senders \in 0..USIZE_MAX

\* ------------------------------------------------------------ the claims
is_open == decode_state(state).is_open
num_messages == decode_state(state).num_messages

\* no producer call is in progress
ProducersIdle == \A p \in Handles : pc[p] \in {"unborn", "idle", "dropped"}

\* the receiver polled until the queue was empty, got NotReady and was not
\* signalled since
ReceiverParked == rpc = "idle" /\ recv_task.task /\ ~recv_task.unparked

\* handle p is live, its send parked it and returned NotReady, and its
\* SenderTask was not notified since
ParkedUnnotified(p) ==
    pc[p] = "idle" /\ sender_task[p].is_parked /\ sender_task[p].task /\ waiting[p]

\* C1: no parked producer is stranded.  Once the receiver has polled the
\* message queue empty and no producer call is in progress, no further pop
\* can notify anybody, so on an open channel no producer may then still be
\* parked by a send that returned NotReady.
C1_NoStrandedProducer ==
    (is_open /\ ProducersIdle /\ ReceiverParked /\ message_queue = << >>)
        => \A p \in Handles : ~ParkedUnnotified(p)

\* C10: close() wakes every parked producer.  Once close() has returned,
\* no producer call is in progress and the channel is drained (nothing left
\* for a later poll to pop), no producer may still be parked by a send that
\* returned NotReady.
C10_CloseWakesParked ==
    (close_returned /\ ProducersIdle /\ rpc = "idle"
        /\ message_queue = << >> /\ num_messages = 0)
        => \A p \in Handles : ~ParkedUnnotified(p)

\* handle p took a step
Stepped(p) == pc'[p] # pc[p]

\* C2: a poll that pops a real envelope does exactly one unpark_one between
\* the pop and the decrement.  The pop changes neither the state word nor
\* the parked queue and leads to unpark_one; unpark_one removes and notifies
\* exactly the oldest parked SenderTask, or nothing if there is none, and
\* leaves the state word alone; the parked queue shrinks nowhere else in a
\* poll; the count goes down by one, only in the step that ends the poll.
C2_UnparkOnePerPop ==
    [][ /\ (rpc \in {"idle", "next_message"}
                /\ Len(message_queue') < Len(message_queue) /\ Head(message_queue).from # 0)
            => /\ rpc' = "unpark_one" /\ rmsg' = Head(message_queue)
               /\ message_queue' = Tail(message_queue)
               /\ state' = state /\ parked_queue' = parked_queue
        /\ (rpc = "unpark_one" /\ rpc' # rpc /\ rmsg.from # 0)
            => /\ rpc' = "dec_num_messages" /\ rmsg' = rmsg /\ state' = state
               /\ IF parked_queue # << >>
                    THEN /\ parked_queue' = Tail(parked_queue)
                         /\ sender_task' = [sender_task EXCEPT ![Head(parked_queue)] =
                                               [task |-> FALSE, is_parked |-> FALSE]]
                    ELSE parked_queue' = parked_queue /\ sender_task' = sender_task
        /\ Len(parked_queue') < Len(parked_queue)
            => /\ rpc \in {"unpark_one", "close_drain", "drop_close"}
               /\ Len(parked_queue') = Len(parked_queue) - 1
        /\ num_messages' < num_messages
            => /\ rpc = "dec_num_messages" /\ rpc' = "idle"
               /\ num_messages' = num_messages - 1
      ]_vars

\* C2 witness: a poll has popped an envelope and is about to decrement, and
\* its unpark_one has notified a producer that send had parked (close was
\* never called, so nothing else can have notified it)
C2_Witness ==
    /\ rpc = "dec_num_messages" /\ rmsg.from # 0 /\ ~ncloses
    /\ \E p \in Handles : /\ pc[p] = "idle" /\ res[p] = "NotReady" /\ maybe_parked[p]
                          /\ ~sender_task[p].is_parked /\ ~waiting[p]

Resident == {i \in DOMAIN message_queue : message_queue[i].from # 0}
ResidentBackPressured == {i \in Resident : ~message_queue[i].forced}

InFlight == (IF rmsg = NoMsg THEN << >> ELSE <<rmsg>>) \o message_queue

\* C5: per-producer FIFO.  The envelopes of handle p still to be returned by
\* poll are the last ones p pushed, in the order p pushed them: poll, which
\* returns what it pops from the head, returns A before B.
C5_PerProducerFifo ==
    \A p \in Handles :
        LET mine == {i \in DOMAIN InFlight : InFlight[i].from = p} IN
        /\ \A i, j \in mine : i < j => InFlight[i].seq < InFlight[j].seq
        /\ {InFlight[i].seq : i \in mine} = (nsent[p] - Cardinality(mine) + 1)..nsent[p]

\* C5 witness: poll has popped the second envelope of a handle and is about
\* to return it
C5_Witness ==
    /\ rpc = "dec_num_messages" /\ rmsg.from # 0 /\ rmsg.seq = 2

\* sentinels popped or still queued, and whether poll has returned one
SentinelsInFlight == {i \in DOMAIN InFlight : InFlight[i] = NoneMsg}
SentinelReturned == nsentinels > Cardinality(SentinelsInFlight)

\* poll has popped an envelope that it is about to return
ReturningEnvelope == rpc \in {"unpark_one", "dec_num_messages"} /\ rmsg.from # 0

\* a handle that can still push an envelope: live, or in a call
CanStillSend(p) ==
    pc[p] \in {"idle", "inc_num_messages", "park", "park_push", "park_load"}
        \/ (pc[p] \in {"push", "signal"} /\ op[p] # "drop")

C7_SentinelLastAndOnce ==
    /\ nsentinels <= 1
    /\ SentinelReturned => ~ReturningEnvelope

\* C7, amended: at most one sentinel is pushed per opening of the channel
\* (its creation and every call of sender()), and on a channel that
\* sender() never re-opened no poll returns an envelope after one returned
\* Ready(None) for a popped sentinel.
C7_SentinelPerOpening ==
    /\ nsentinels <= 1 + nreopens
    /\ (nreopens = 0 /\ SentinelReturned) => ~ReturningEnvelope

\* C7 witness: after sender() re-opened the channel a second sentinel was
\* pushed and poll returns an envelope after it returned the first sentinel
C7_Witness ==
    nreopens = 1 /\ nsentinels = 2 /\ SentinelReturned /\ ReturningEnvelope

\* the call of handle p, or the one it may start, lies after the return of
\* close() with no sender() in between
InClosedWindow(p) == IF pc[p] = "idle" THEN close_returned ELSE in_closed[p]

\* C8: after close() has returned and until sender() is called, the channel
\* stays closed, poll_unparked finds no handle parked, and every step of a
\* send, try_send or do_send leaves the state word and both queues alone
\* and returns nothing but Closed.
C8_ClosedAfterClose ==
    [][ \A p \in Handles : InClosedWindow(p) =>
          /\ ~is_open
          /\ pc[p] = "idle" => ~(maybe_parked[p] /\ sender_task[p].is_parked)
          /\ ((Stepped(p) \/ res'[p] # res[p])
                  /\ pc'[p] \notin {"do_close", "dropped", "panicked"})
                => /\ state' = state
                   /\ message_queue' = message_queue
                   /\ parked_queue' = parked_queue
                   /\ pc'[p] \in {"idle", "inc_num_messages"}
                   /\ pc'[p] = "idle" => res'[p] = "Closed"
      ]_vars

\* C8 witness: a send was in the middle of park when close ran (its
\* SenderTask is still marked parked), and its next call returned Closed
C8_Witness ==
    /\ close_returned
    /\ \E p \in Handles : /\ pc[p] = "idle" /\ res[p] = "Closed"
                          /\ sender_task[p].is_parked /\ waiting[p]

\* a reservation whose message is not yet pushed
Reserved(p) ==
    pc[p] = "push" \/ (op[p] = "drop" /\ pc[p] \in {"park", "park_push", "park_load"})

\* C9: close-then-drain.  close() pops and drops no message; poll returns
\* Ready(None) from TryPark::Closed only when is_open is false and
\* num_messages is 0, and then nothing is queued, popped or reserved.
C9_CloseThenDrain ==
    [][ /\ ((rpc = "idle" /\ rpc' = "close_drain")
               \/ (rpc = "close_drain"
                     /\ (rpc' = "idle" \/ Len(parked_queue') < Len(parked_queue))))
            => message_queue' = message_queue /\ num_messages' = num_messages
        /\ (rpc = "try_park" /\ rpc' = "idle")
            => /\ ~is_open /\ num_messages = 0
               /\ message_queue = << >> /\ rmsg = NoMsg
               /\ \A p \in Handles : ~Reserved(p)
      ]_vars

\* C9 witness: after close() returned, a poll has popped an envelope and is
\* about to return it
C9_Witness ==
    close_returned /\ ~is_open /\ rpc = "dec_num_messages" /\ rmsg.from # 0

\* handle p starts a do_send that finds the channel open
DoSendStarts(p) == pc[p] = "idle" /\ pc'[p] = "push" /\ op'[p] = "do_send"

TrySendStarts(p) == pc[p] = "idle" /\ pc'[p] = "inc_num_messages" /\ op'[p] = "try_send"

\* try_send on handle p returns NotReady out of inc_num_messages
TrySendNotReady(p) ==
    op[p] = "try_send" /\ pc[p] = "inc_num_messages" /\ pc'[p] = "idle" /\ res'[p] = "NotReady"

\* what both steps of a try_send that returns NotReady leave alone
TrySendFrame(p) ==
    /\ state' = state /\ message_queue' = message_queue
    /\ parked_queue' = parked_queue /\ sender_task'[p] = sender_task[p]

\* C12, as claimed: a try_send that returns NotReady because of
\* back-pressure leaves the state word, both queues and the SenderTask
\* alone, and maybe_parked is, when it returns, what it was when it was
\* called.
C12_TrySendChangesNothing ==
    [][ \A p \in Handles :
        /\ TrySendStarts(p) => TrySendFrame(p)
        /\ TrySendNotReady(p) =>
              /\ TrySendFrame(p)
              /\ maybe_parked'[p] = cleared[p]
      ]_vars

\* C12, amended: a try_send that returns NotReady because of back-pressure
\* leaves the state word, both queues and the SenderTask alone, and leaves
\* maybe_parked false (poll_unparked clears it if the park of an earlier send
\* had left it set); it saw an open word with num_messages >= buffer > 0.
\* With maybe_parked false the next try_send gets past poll_unparked
\* without any notification.
C12_TrySendNotReadyFrame ==
    [][ \A p \in Handles :
        /\ TrySendStarts(p) =>
              /\ TrySendFrame(p)
              /\ ~maybe_parked'[p]
              /\ maybe_parked[p] => ~sender_task[p].is_parked
        /\ TrySendNotReady(p) =>
              /\ TrySendFrame(p)
              /\ maybe_parked'[p] = maybe_parked[p] /\ ~maybe_parked'[p]
              /\ is_open /\ buffer > 0 /\ num_messages >= buffer
      ]_vars

\* C12 witness: a try_send that found maybe_parked set by an earlier send
\* has returned NotReady because of back-pressure, and maybe_parked is clear
C12_Witness ==
    \E p \in Handles :
        /\ pc[p] = "idle" /\ res[p] = "NotReady"
        /\ cleared[p] /\ ~maybe_parked[p] /\ ~sender_task[p].is_parked

\* increments whose message is not pushed yet, and pops of poll whose
\* decrement is still to come
Reservations == Cardinality({p \in Handles : Reserved(p)})
Undecremented == IF rpc \in {"unpark_one", "dec_num_messages"} THEN 1 ELSE 0

\* no operation is in progress
Quiescent == ProducersIdle /\ rpc \in {"idle", "dropped"}

\* C13, as claimed: count conservation.  num_messages is the number of
\* messages in the queue (pushes minus pops) plus the increments not yet
\* followed by their push plus the pops not yet followed by their decrement;
\* at quiescence num_messages is the number of pushes minus the number of
\* pops.
C13_CountConservation ==
    /\ num_messages = Len(message_queue) + Reservations + Undecremented
    /\ Quiescent => num_messages = Len(message_queue)

\* C13, amended: the same while the consumer is alive, where every pop is
\* one of poll.  The drain of the consumer's drop pops without decrementing:
\* from then on num_messages is at least the number of pushes minus the
\* number of pops.
C13_CountConservationAlive ==
    IF rpc \in {"drop_drain", "dropped"}
      THEN num_messages >= Len(message_queue) + Reservations
      ELSE /\ num_messages = Len(message_queue) + Reservations + Undecremented
           /\ Quiescent => num_messages = Len(message_queue)

\* C13 witness: at quiescence, after two pushes (a sentinel among them) and
\* one pop of poll, num_messages is 1
C13_Witness ==
    /\ Quiescent /\ rpc = "idle" /\ num_messages = 1 /\ Len(message_queue) = 1
    /\ nsentinels = 1 /\ SumTo(nsent, NumHandles) = 1

\* C14: re-open.  Once sender() has returned, and as long as the consumer
\* has not closed the channel and a producer handle is live (all of them
\* stem from the one sender() yielded when the channel had been closed by
\* the last producer's drop), is_open is true, so no send on such a handle
\* returns Closed.
C14_ReopenYieldsLiveProducer ==
    (nreopens > 0 /\ ~ncloses /\ rpc = "idle" /\ num_senders > 0) => is_open

\* a producer handle other than p is live
OtherLive(p) == \E q \in Handles \ {p} : CanStillSend(q)

\* C15: only the drop of the last producer closes the channel from the
\* producer side.  No step of a producer's drop clears is_open or pushes the
\* sentinel while another producer handle is live.
C15_OnlyLastDropCloses ==
    [][ \A p \in Handles :
        /\ (pc[p] = "do_close" /\ is_open /\ ~is_open') => ~OtherLive(p)
        /\ (op[p] = "drop" /\ pc[p] = "push" /\ Stepped(p)) => ~OtherLive(p)
      ]_vars

\* a producer has pushed a message and not yet finished signal()
Signalling == \E p \in Handles : pc[p] = "signal"

\* C16: no lost consumer wake-up.  No state is reachable in which the
\* message queue is non-empty, no producer is between its push and the end
\* of its signal(), and the consumer is parked (its task stored by try_park)
\* without having been notified; if the last poll returned NotReady, then
\* in such a state signal() has taken the stored task and notified it.
C16_NoLostConsumerWakeup ==
    /\ (message_queue # << >> /\ ~Signalling) => ~ReceiverParked
    /\ (rpc = "idle" /\ rparked /\ message_queue # << >> /\ ~Signalling)
          => recv_task.unparked /\ ~recv_task.task

\* C16 witness: the consumer's last poll returned NotReady, and since then
\* a producer has pushed a message and completed signal(), which took the
\* stored task and notified it
C16_Witness ==
    /\ rpc = "idle" /\ rparked /\ message_queue # << >> /\ ~Signalling
    /\ recv_task.unparked /\ ~recv_task.task

\* C17: consumer drop drains the channel.  Once the drop of the consumer
\* has completed no envelope remains in the message queue, whenever it was
\* pushed.
C17_DropDrains == rpc = "dropped" => Resident = {}

\* a clone() or a sender() panics in this step
ClonePanics ==
    \/ \E p \in Handles : pc[p] = "idle" /\ pc'[p] = "panicked"
    \/ rpc = "sender_clone" /\ rpc' = "panicked"

\* num_senders goes up only below max_senders(), and by one; clone and
\* sender() panic exactly at max_senders() and leave num_senders alone
CeilingStep ==
    /\ num_senders' > num_senders
          => num_senders < max_senders /\ num_senders' = num_senders + 1
    /\ ClonePanics => num_senders = max_senders /\ num_senders' = num_senders
    /\ (rpc = "sender_clone" /\ rpc' # rpc /\ num_senders = max_senders)
          => rpc' = "panicked"

\* C18, as claimed: num_senders <= MAX_CAPACITY - buffer in every state;
\* clone and sender() panic instead of incrementing at max_senders(); and
\* channel() accepts buffer = MAX_CAPACITY - 1, the configuration with
\* max_senders() = 1 in which the first clone panics.
C18_SenderCeiling ==
    /\ [](num_senders <= MAX_CAPACITY - buffer /\ channel_accepts(MAX_CAPACITY - 1))
    /\ [][CeilingStep]_vars

\* C18, amended: num_senders <= MAX_CAPACITY - buffer in every state; clone
\* and sender() panic instead of incrementing at max_senders(); channel()
\* rejects buffer = MAX_CAPACITY - 1, every channel has max_senders() >
\* MAX_BUFFER, and no clone panics on a channel with a single handle.
C18_SenderCeilingOfChannel ==
    /\ [](/\ num_senders <= MAX_CAPACITY - buffer
          /\ ~channel_accepts(MAX_CAPACITY - 1)
          /\ channel_accepts(buffer) /\ max_senders > MAX_BUFFER)
    /\ [][CeilingStep /\ (ClonePanics => num_senders > 1)]_vars

\* C18 witness: with max_senders() handles in existence a clone has panicked
C18_Witness ==
    /\ num_senders = max_senders
    /\ \E p \in Handles : pc[p] = "panicked"

\* the word a step writes is the encoding of the record it means to write
\* (is_open as decided, num_messages one up, one down or as it was), and
\* decodes to that record
WrittenOK ==
    state' # state =>
        \E s \in [is_open : BOOLEAN,
                   num_messages : {n \in {num_messages - 1, num_messages,
                                          num_messages + 1} : n >= 0}] :
            state' = encode_state(s) /\ decode_state(state') = s

\* C19: the packed state word never overflows.  num_messages <= MAX_CAPACITY
\* in every state; every increment adds exactly one to num_messages and
\* leaves the OPEN bit to is_open; no decrement is applied to num_messages
\* = 0; every word written decodes to the record that was encoded.
C19_NoOverflow ==
    /\ [](num_messages <= MAX_CAPACITY)
    /\ [][ /\ WrittenOK
           /\ \A p \in Handles :
                 (Stepped(p) /\ state' # state)
                     => /\ num_messages' = num_messages + 1
                        /\ is_open' = (pc[p] # "do_close")
           /\ (rpc = "dec_num_messages" /\ rpc' # rpc)
                 => num_messages > 0 /\ num_messages' = num_messages - 1
         ]_vars

\* handle p calls send or try_send while it is still parked
RetriesParked(p) ==
    /\ pc[p] = "idle" /\ maybe_parked[p] /\ sender_task[p].is_parked
    /\ sender_task'[p] # sender_task[p] \/ res'[p] # res[p]

\* C20: a parked producer that retries send or try_send while still parked
\* gets NotReady and keeps its wake-up pending.  While is_parked is true and
\* the producer was parked with a task, the stored task handle is present;
\* the retry returns NotReady and leaves a task handle stored; the notify
\* that clears is_parked reaches that task.
C20_RetryKeepsWakeup ==
    /\ [](\A p \in Handles :
            (sender_task[p].is_parked /\ waiting[p]) => sender_task[p].task)
    /\ [][ \A p \in Handles :
            /\ RetriesParked(p)
                  => /\ res'[p] = "NotReady"
                     /\ sender_task'[p].is_parked
                     /\ waiting[p] => sender_task'[p].task
            /\ (sender_task[p].is_parked /\ ~sender_task'[p].is_parked /\ waiting[p])
                  => ~waiting'[p]
          ]_vars

\* poll's next_message pops the terminating sentinel
PopsSentinel ==
    /\ rpc \in {"idle", "next_message"}
    /\ message_queue # << >>
    /\ Head(message_queue) = NoneMsg
    /\ message_queue' = Tail(message_queue)

\* C21, as claimed: when poll pops the terminating sentinel it returns
\* Ready(None) at once, without unpark_one and without decrementing
\* num_messages.
C21_SentinelIsTerminal ==
    [][ /\ PopsSentinel => rpc' = "idle"
        /\ (rmsg = NoneMsg /\ rpc \in {"unpark_one", "dec_num_messages"}
                /\ rpc' # rpc)
              => parked_queue' = parked_queue /\ state' = state
      ]_vars

\* C21, amended: poll treats a popped sentinel as it treats an envelope.
\* The pop leads to unpark_one, which removes the head of the parked queue,
\* if there is one, and clears its is_parked; then dec_num_messages takes
\* one off num_messages, leaves is_open alone, and poll returns.
C21_SentinelPopUnparksAndDecrements ==
    [][ /\ PopsSentinel
              => /\ rpc' = "unpark_one"
                 /\ rmsg' = NoneMsg
                 /\ state' = state /\ parked_queue' = parked_queue
        /\ (rmsg = NoneMsg /\ rpc = "unpark_one" /\ rpc' # rpc)
              => /\ rpc' = "dec_num_messages"
                 /\ state' = state
                 /\ parked_queue # << >>
                       => /\ parked_queue' = Tail(parked_queue)
                          /\ ~sender_task'[Head(parked_queue)].is_parked
        /\ (rmsg = NoneMsg /\ rpc = "dec_num_messages" /\ rpc' # rpc)
              => /\ rpc' = "idle"
                 /\ num_messages' = num_messages - 1
                 /\ is_open' = is_open
      ]_vars

\* the sentinel is the first entry popped on a channel with a buffer that
\* was never closed by the consumer: do_close had parked the SenderTask of
\* the dropped handle, and unpark_one has taken it off the parked queue
C21_Witness ==
    /\ buffer > 0 /\ ~ncloses
    /\ SumTo(nsent, NumHandles) = 0
    /\ rmsg = NoneMsg
    /\ rpc = "dec_num_messages"
    /\ parked_queue = << >>
    /\ \E p \in Handles :
          op[p] = "drop" /\ pc[p] \in {"push", "signal", "dropped"}
              /\ sender_task[p] = [task |-> FALSE, is_parked |-> FALSE]

\* the steps of do_close on handle p, from inc_num_messages_force(true) to
\* the end of signal(); `parks` tells whether do_close, at the count its
\* increment has stored, calls park(false)
DoCloseSteps(p, parks) ==
    /\ (pc[p] = "do_close" /\ Stepped(p) /\ ~is_open)
          => /\ pc'[p] = "dropped"
             /\ UNCHANGED <<shared, sender_task, maybe_parked>>
    /\ (pc[p] = "do_close" /\ Stepped(p) /\ is_open)
          => /\ num_messages' = num_messages + 1
             /\ ~is_open'
             /\ UNCHANGED <<message_queue, parked_queue, sender_task>>
             /\ pc'[p] = IF parks THEN "park" ELSE "push"
    /\ (op[p] = "drop" /\ pc[p] = "park" /\ Stepped(p))
          => /\ sender_task'[p] = [task |-> FALSE, is_parked |-> TRUE]
             /\ pc'[p] = "park_push"
    /\ (op[p] = "drop" /\ pc[p] = "park_push" /\ Stepped(p))
          => /\ parked_queue' = Append(parked_queue, p)
             /\ pc'[p] = "park_load"
    /\ (op[p] = "drop" /\ pc[p] = "park_load" /\ Stepped(p))
          => /\ pc'[p] = "push"
             /\ UNCHANGED <<message_queue, parked_queue>>
    /\ (op[p] = "drop" /\ pc[p] = "push" /\ Stepped(p))
          => /\ message_queue' = Append(message_queue, NoneMsg)
             /\ pc'[p] = "signal"
    /\ (op[p] = "drop" /\ pc[p] = "signal" /\ Stepped(p))
          => /\ recv_task'.unparked
             /\ message_queue' = message_queue
             /\ pc'[p] = "dropped"

ExceedsBuffer(n) == buffer > 0 /\ n > buffer

ReachesBuffer(n) == buffer > 0 /\ n >= buffer

FastNotReady(p) == maybe_parked[p] /\ sender_task[p].is_parked

SlowNotReady(p) == sender_task[p].is_parked

\* the two paths decide differently for the calls of handle p (p is live and
\* not between the store of is_parked and the store of maybe_parked)
Disagree(p) ==
    /\ pc[p] \in {"idle", "inc_num_messages", "park", "push", "signal"}
    /\ op[p] # "drop"
    /\ FastNotReady(p) # SlowNotReady(p)

\* C23, as claimed: maybe_parked is only a hint.  park always records
\* maybe_parked = true, and poll_unparked on the slow path decides as
\* poll_unparked on the fast path for every send and try_send, so that the
\* two models return the same results in every interleaving.
C23_MaybeParkedOnlyHint ==
    /\ [](\A p \in Handles : ~Disagree(p))
    /\ [][\A p \in Handles :
            (pc[p] = "park_load" /\ Stepped(p)) => maybe_parked'[p]]_vars

\* C23, amended: park records maybe_parked = is_open, as read after its
\* push.  The slow path and the fast path decide the same for every send
\* and try_send except those of a handle whose send has parked on a channel
\* it then read as closed: only that step of park makes the two differ, and
\* there the fast path lets the call through to inc_num_messages where the
\* slow path answers NotReady.
C23_MaybeParkedHintWhileOpen ==
    [][ \A p \in Handles :
        /\ (pc[p] = "park_load" /\ Stepped(p)) => maybe_parked'[p] = is_open
        /\ (Disagree(p)' /\ ~Disagree(p))
              => /\ pc[p] = "park_load" /\ op[p] = "send" /\ ~is_open
                 /\ SlowNotReady(p)' /\ ~FastNotReady(p)'
      ]_vars

\* one handle has parked on the open channel (both paths answer NotReady),
\* the other has parked and read the channel closed (the paths differ)
C23_Witness ==
    \E p, q \in Handles :
        /\ pc[p] = "idle" /\ FastNotReady(p) /\ SlowNotReady(p)
        /\ res[p] = "NotReady"
        /\ pc[q] = "idle" /\ Disagree(q) /\ res[q] = "NotReady"

\* the consumer has not been dropped
ConsumerAlive == rpc \notin {"drop_close", "drop_drain", "dropped"}

SentinelsReserved == Cardinality({p \in Handles : op[p] = "drop" /\ Reserved(p)})

SentinelsCounted ==
    SentinelsReserved
        + Cardinality({i \in DOMAIN message_queue : message_queue[i] = NoneMsg})
        + (IF rmsg = NoneMsg /\ Undecremented = 1 THEN 1 ELSE 0)

\* a send or try_send of handle p takes a slot, and takes it below the
\* buffer; a send that parks takes none
SendsBelowBuffer(p) ==
    /\ (op[p] \in {"send", "try_send"} /\ Stepped(p) /\ state' # state)
          => /\ pc[p] = "inc_num_messages" /\ pc'[p] = "push"
             /\ num_messages < buffer
             /\ num_messages' = num_messages + 1
    /\ (op[p] = "send" /\ pc[p] \in {"park", "park_push", "park_load"}
            /\ Stepped(p))
          => state' = state
    /\ (op[p] = "send" /\ pc[p] = "inc_num_messages" /\ pc'[p] = "park")
          => state' = state /\ num_messages >= buffer

\* C25, as claimed: effective capacity with back-pressured sends only.  For
\* buffer > 0, when only send and try_send are used, num_messages never
\* exceeds buffer through sends, whatever the number of producers, and
\* never exceeds buffer + 1 once the last-producer sentinel is counted; a
\* parked producer holds no reservation.
C25_EffectiveCapacity ==
    /\ [](buffer > 0 =>
            /\ num_messages <= buffer + 1
            /\ SentinelsCounted = 0 => num_messages <= buffer)
    /\ [][buffer > 0 => \A p \in Handles : SendsBelowBuffer(p)]_vars

\* C25, amended: the same, with one slot above the buffer for every
\* sentinel counted, and there is one for each time the channel was closed
\* by the drop of its last producer.  Once the consumer is dropped, whose
\* drain decrements nothing, the sentinels counted are at most those ever
\* pushed and those reserved.
C25_EffectiveCapacityPerSentinel ==
    /\ [](buffer > 0 =>
            IF ConsumerAlive
              THEN num_messages <= buffer + SentinelsCounted
              ELSE num_messages <= buffer + nsentinels + SentinelsReserved)
    /\ [][buffer > 0 => \A p \in Handles : SendsBelowBuffer(p)]_vars

\* the buffer is full of sends and two sentinels are counted on top
C25_Witness ==
    /\ buffer > 0
    /\ num_messages = buffer + 2
    /\ SentinelsCounted = 2

====
